---- MODULE Spec2Model ----
(***************************************************************************)
(* State synchronisation of the traffic junction client:                   *)
(*   - the state endpoint   app/api/state/route.ts  (adapter backed) and   *)
(*                          app/api/state/simplified-route.ts (in memory), *)
(*   - the persistence adapters  lib/db-adapter.ts,                        *)
(*   - the engine           lib/sync-service.ts (class SyncService).       *)
(* JSON values are records with a fixed set of fields; a field the value   *)
(* does not carry is "absent" (strings) or Undef (lastUpdated); testValue   *)
(* is the field outside the schema that the verification script adds.      *)
(***************************************************************************)
EXTENDS Integers, Sequences, FiniteSets, TLC

\* ------------------------------------------------------------------ bounds
\* largest reading of the true time (every Date.now() is now + skew)
MaxClock == 3
\* largest lastUpdated a request body written by hand carries
MaxStamp == 3

\* ------------------------------------------------------------------ values
\* lastUpdated of a value that has no such property (JS undefined)
Undef == -1

\* a > b of JavaScript on lastUpdated: undefined converts to NaN, and every
\* comparison with NaN is false
JsGreater(a, b) == a # Undef /\ b # Undef /\ a > b

ControlModes == {"auto", "manual"}

Value(k, cm, ss, lu, by) ==
  [kind |-> k, controlMode |-> cm, signalStatus |-> ss, lastUpdated |-> lu, lastUpdatedBy |-> by,
   testValue |-> "absent"]

\* JSON null, and what the adapters return for "no document"
Null == Value("null", "absent", "absent", Undef, "absent")
\* the body text not-json: request.json() throws on it
Unparsable == Value("unparsable", "absent", "absent", Undef, "absent")
JsonString == Value("string", "absent", "absent", Undef, "absent")
JsonNumber == Value("number", "absent", "absent", Undef, "absent")
\* a JSON array: typeof [] is "object"
JsonArray == Value("array", "absent", "absent", Undef, "absent")
\* {}
EmptyObject == Value("object", "absent", "absent", Undef, "absent")

\* a well-formed document: an object with a numeric lastUpdated
WellFormed(v) == v.kind = "object" /\ v.lastUpdated # Undef

\* !v of JavaScript, for the values a handler meets (null is falsy; objects and
\* arrays are truthy; the falsy strings and numbers fail typeof like the others)
Falsy(v) == v.kind = "null"

\* a serialisation that keeps the fields of SyncedState only
JsonSchemaOnly(v) ==
  IF v.kind = "array" THEN [v EXCEPT !.lastUpdated = Undef] ELSE [v EXCEPT !.testValue = "absent"]

\* JSON.parse(JSON.stringify(v)): an array keeps its elements only, so a
\* lastUpdated property set on it is lost; an object keeps its properties
JsonRoundTrip(v) ==
  IF v.kind = "array" THEN [v EXCEPT !.lastUpdated = Undef] ELSE v

\* v1 and v2 agree on every field other than lastUpdated
SameButStamp(v1, v2) == [v1 EXCEPT !.lastUpdated = Undef] = [v2 EXCEPT !.lastUpdated = Undef]

\* ------------------------------------------------------------------ state
VARIABLES
  variant,       \* which state endpoint is deployed: "route" or "simplified"
  currentState,  \* the persisted document: simplified-route.ts's module variable,
                 \* or what route.ts's dbAdapter holds; Null while there is none
  now,           \* the server's clock, read by Date.now() in the handlers
  post,          \* the POST handlers in flight, one record per slot
  prevBody,      \* body of the POST handled before the one in slot 1 (history)
  getResp,       \* body of the last GET response
  clients,       \* route.ts's clients map: the ids of the registered streams
  pushed,        \* what notifyClients has written, as pairs of stream id and document
  opened,        \* the clientIds whose server-push stream request was answered (history)
  arrival,       \* per slot: 0, or 1 and 2 for two POSTs that overlap, in order of arrival (history)
  skew,          \* per client: its clock minus the server's
  state,         \* per client: SyncService.state, the in-memory document
  initialize,    \* per client: the calls of SyncService.initialize(), in order of call,
                 \* each with its await of getState
  fetchState,    \* per client: the SyncService.fetchState() in flight
  publish,       \* per client: the updateStateAndPublish calls, in order of call
  remotePosts,   \* how many POSTs the other participants have sent
  hook,          \* per client: the component that uses the simplified polling hook: whether
                 \* it is mounted, the document it holds (useState), the defaultState that the
                 \* interval's fetchState closed over, its fetch and its POST in flight
  localStorage,  \* per client: the item traffic_junction_state of the browser's localStorage
  config,        \* per client: SyncService.config
  isInitialized, \* per client: SyncService.isInitialized
  transport,     \* per client: the pollingInterval, websocket and eventSource fields, and
                 \* the events and timers that the sockets and streams have pending
  onStateChangeCallbacks, \* per client: the registered callbacks, in order of registration
  invoked,       \* per client: the callbacks the engine's latest step invoked, in order,
                 \* each with the document it was handed
  sent,          \* per client: the messages the engine's latest step sent over the socket
  offered,       \* per client: the document the engine's latest step passed to updateState,
                 \* as a sequence of one, or of none (history)
  cleaned,       \* per client: cleanup() was called and updateConfig() has not been since (history)
  owed           \* per client: "owed" when a connection was lost and no WebSocket has been
                 \* constructed since, "retried" when one has, "none" before any loss (history)

endpointVars == <<variant, currentState, now, post, getResp, clients, pushed>>
historyVars == <<prevBody, arrival, opened>>
hookVars == <<hook, localStorage>>
serviceVars == <<config, isInitialized, transport, onStateChangeCallbacks, cleaned, owed>>
outputVars == <<invoked, sent, offered>>
engineVars == <<skew, state, initialize, fetchState, publish, remotePosts, hookVars, serviceVars, outputVars>>
vars == <<variant, currentState, now, post, prevBody, getResp, clients, pushed, opened, arrival,
          skew, state, initialize, fetchState, publish, remotePosts, hook, localStorage,
          config, isInitialized, transport, onStateChangeCallbacks, invoked, sent, offered, cleaned, owed>>

Variants == {"route", "simplified"}
Slots == {1, 2}

\* request bodies: the non-objects, the array, and objects with and without stamp
Documents == {Value("object", cm, "red", lu, "c1") : cm \in ControlModes, lu \in 1..MaxStamp}
\* what testStatePersistence POSTs after reading {} : { testValue, lastUpdated },
\* stamped with its Date.now(), the latest stamp there is
TestDocuments ==
  {[Value("object", "absent", "absent", lu, "absent") EXCEPT !.testValue = "test"] : lu \in {MaxStamp}}
Bodies ==
  {Unparsable, Null, JsonString, JsonNumber, JsonArray, EmptyObject} \cup Documents \cup TestDocuments

\* a handler: its position, the request body, newState as the handler holds it,
\* the response (status 0: none yet; state Null: an error body), and as history
\* the stored document and the clock when the request arrived
IdleHandler ==
  [pc |-> "idle", body |-> Null, newState |-> Null,
   status |-> 0, state |-> Null, before |-> Null, at |-> 0]

\* ------------------------------------------------------------------ endpoint
\* request.json() followed by the basic validation: the status of the early
\* return, or 0 when the handler goes on
Validate(body) ==
  IF body.kind = "unparsable" THEN 500
  ELSE IF Falsy(body) \/ body.kind \notin {"object", "array"} THEN 400
  ELSE 0

\* the admission check with the comparison turned round
AdmitsOlder(cur, newState) == Falsy(cur) \/ JsGreater(cur.lastUpdated, newState.lastUpdated)

\* the admission check of both handlers
Admits(cur, newState) == Falsy(cur) \/ JsGreater(newState.lastUpdated, cur.lastUpdated)

\* newState.lastUpdated = Date.now()
Stamp(newState, t) == [newState EXCEPT !.lastUpdated = t]

\* NextResponse.json(state || {})
GetBody(doc) == IF Falsy(doc) THEN EmptyObject ELSE JsonRoundTrip(doc)

\* an early return of a handler (400, 500): an error body, no state field
Rejected(h, body, code) ==
  [IdleHandler EXCEPT !.pc = "done", !.body = body, !.status = code,
                      !.before = currentState, !.at = now]

\* One POST handler run alone on stored document `stored` at clock reading t,
\* its adapter requests succeeding: the document stored afterwards, the response,
\* and whether the candidate was admitted
Serial(v, stored, body, t) ==
  IF Validate(body) # 0
    THEN [stored |-> stored, status |-> Validate(body), state |-> Null, admitted |-> FALSE]
  ELSE IF Admits(stored, body)
    THEN [stored |-> IF v = "route" THEN JsonRoundTrip(Stamp(body, t)) ELSE Stamp(body, t),
          status |-> 200, state |-> JsonRoundTrip(Stamp(body, t)), admitted |-> TRUE]
    ELSE [stored |-> stored, status |-> 200,
          state |-> IF v = "route" THEN JsonRoundTrip(body) ELSE JsonRoundTrip(stored),
          admitted |-> FALSE]

\* simplified-route.ts POST: the handler has no suspension point after
\* request.json(), so it is one step
SimplifiedPOST(h, body) ==
  /\ variant = "simplified"
  /\ post[h].pc \in {"idle", "done"}
  /\ IF Validate(body) # 0
       THEN /\ post' = [post EXCEPT ![h] = Rejected(h, body, Validate(body))]
            /\ UNCHANGED currentState
       ELSE LET admitted == Admits(currentState, body)
                newState == IF admitted THEN Stamp(body, now) ELSE body
                stored == IF admitted THEN newState ELSE currentState
            IN /\ currentState' = stored
               /\ post' = [post EXCEPT ![h] =
                    [pc |-> "done", body |-> body, newState |-> newState, status |-> 200,
                     state |-> JsonRoundTrip(stored), before |-> currentState, at |-> now]]
  /\ UNCHANGED <<variant, now, getResp, clients, pushed>>

\* route.ts POST up to its await of dbAdapter.getState()
RoutePOST(h, body) ==
  /\ variant = "route"
  /\ post[h].pc \in {"idle", "done"}
  /\ post' = [post EXCEPT ![h] =
       IF Validate(body) # 0 THEN Rejected(h, body, Validate(body))
       ELSE [IdleHandler EXCEPT !.pc = "getState", !.body = body, !.newState = body,
                                !.before = currentState, !.at = now]]
  /\ UNCHANGED <<variant, currentState, now, getResp, clients, pushed>>

\* ServerStorageAdapter.getState as the handlers see it: the document, or null
\* when the request fails or nothing is stored
AdapterGetState(ok) == IF ok THEN currentState ELSE Null

\* route.ts POST from the result of getState to its await of saveState, or to
\* its response when the candidate is not admitted
RouteGetState(h, ok) ==
  /\ variant = "route"
  /\ post[h].pc = "getState"
  /\ LET cur == AdapterGetState(ok)
         r == post[h]
     IN post' = [post EXCEPT ![h] =
          IF Admits(cur, r.newState)
            THEN [r EXCEPT !.newState = Stamp(r.newState, now), !.pc = "saveState"]
            ELSE [r EXCEPT !.pc = "done", !.status = 200, !.state = JsonRoundTrip(r.newState)]]
  /\ UNCHANGED <<variant, currentState, now, getResp, clients, pushed>>

\* notifyClients(state): one write of the document to every stream in the map
notifyClients(doc) == pushed \cup {[to |-> id, data |-> JsonRoundTrip(doc)] : id \in clients}

\* route.ts POST from the result of saveState to its response
RouteSaveState(h, ok) ==
  /\ variant = "route"
  /\ post[h].pc = "saveState"
  /\ LET r == post[h]
     IN IF ok
          THEN /\ currentState' = JsonRoundTrip(r.newState)
               /\ pushed' = notifyClients(r.newState)
               /\ post' = [post EXCEPT ![h] = [r EXCEPT !.pc = "done", !.status = 200,
                                                        !.state = JsonRoundTrip(r.newState)]]
          ELSE /\ UNCHANGED <<currentState, pushed>>
               /\ post' = [post EXCEPT ![h] = [r EXCEPT !.pc = "done", !.status = 500]]
  /\ UNCHANGED <<variant, now, getResp, clients>>

\* GET of either handler; route.ts's adapter answers null when its read fails
GET(ok) ==
  /\ variant = "simplified" => ok
  /\ getResp' = GetBody(AdapterGetState(ok))
  /\ UNCHANGED <<variant, currentState, now, post, clients, pushed>>

\* the request an EventSource sends, GET <sseUrl>?clientId=<id>: the handler never
\* reads the URL, so it is answered like any other GET
StreamGET(id, ok) ==
  /\ GET(ok)
  /\ opened' = opened \cup {id}

\* the server's clock advances
Tick ==
  /\ now < MaxClock
  /\ now' = now + 1
  /\ UNCHANGED <<variant, currentState, post, getResp, clients, pushed>>

\* ------------------------------------------------------------------ engine
\* the SyncService instances modelled; the other participants appear as the
\* POSTs they send to the endpoint
Clients == {"c1"}
\* a client's clock runs behind, with, or ahead of the server's
Skews == {-1, 0, 1}

\* defaultState; its lastUpdated is Date.now() when the module is loaded
defaultState(t) == Value("object", "auto", "red", t, "system")

\* Date.now() on client c
ClientNow(c) == now + skew[c]

\* a request of the client's adapter: not sent, "sent", or "response" with what
\* the adapter returns
NoRequest == [pc |-> "idle", resp |-> Null]

\* ServerStorageAdapter.getState on the client: GET of the endpoint, parsed; null
\* when the request fails
ClientGetState(ok) == IF ok THEN GetBody(currentState) ELSE Null

\* SyncMethod
Methods == {"polling", "websocket", "sse"}

\* SyncConfig: the method, and whether websocketUrl and sseUrl are provided
Configs == [method : Methods, websocketUrl : BOOLEAN, sseUrl : BOOLEAN]

\* defaultConfig: polling, no websocketUrl, no sseUrl
defaultConfig == [method |-> "polling", websocketUrl |-> FALSE, sseUrl |-> FALSE]

\* { ...this.config, ...config }
MergeConfig(cfg, partial) ==
  [f \in DOMAIN cfg |-> IF f \in DOMAIN partial THEN partial[f] ELSE cfg[f]]

\* the fields of a fresh SyncService that hold its transport: no timer, no socket,
\* no stream; closing counts the sockets on which close() was called and whose
\* close event is still to come, reconnect the pending setTimeout(initWebSocket)
\* and retry the pending setTimeout(initSSE)
NoTransport ==
  [pollingInterval |-> FALSE, websocket |-> "null", eventSource |-> "null",
   closing |-> 0, reconnect |-> 0, retry |-> 0]

\* a WebSocket that is CONNECTING or OPEN
LiveSocket(t) == t.websocket \in {"connecting", "open"}

\* the transport resources that are live: the interval timer, a socket that is
\* connecting or open, an event source that is not closed
LiveResources(t) ==
  (IF t.pollingInterval THEN {"polling"} ELSE {})
  \cup (IF LiveSocket(t) THEN {"websocket"} ELSE {})
  \cup (IF t.eventSource = "live" THEN {"sse"} ELSE {})

\* initPolling's timer: clearInterval of the old one, setInterval of a new one
initPolling(t) == [t EXCEPT !.pollingInterval = TRUE]

\* this.websocket.close(): a live socket starts closing and its close event follows
WebSocketClose(t) ==
  IF LiveSocket(t) THEN [t EXCEPT !.websocket = "closed", !.closing = @ + 1] ELSE t

\* onclose that schedules nothing
OnCloseGivesUp(t) == t

\* websocket.onclose: setTimeout(() => this.initWebSocket(), 5000)
onclose(t) == [t EXCEPT !.reconnect = @ + 1]

\* initWebSocket: returns without a URL; else closes the socket held, if any, and
\* constructs a new one with its four handlers
initWebSocket(cfg, t) ==
  IF ~cfg.websocketUrl THEN t
  ELSE [WebSocketClose(t) EXCEPT !.websocket = "connecting"]

\* eventSource.onerror: this.eventSource?.close() and setTimeout(() => this.initSSE(), 5000)
onerror(t) ==
  [t EXCEPT !.eventSource = IF @ = "null" THEN @ ELSE "closed", !.retry = @ + 1]

\* initSSE: returns without a URL; else closes the event source held, if any, and
\* constructs a new one
initSSE(cfg, t) ==
  IF ~cfg.sseUrl THEN t ELSE [t EXCEPT !.eventSource = "live"]

\* cleanup(): clears the interval, closes and drops the socket and the event source
cleanup(t) ==
  [WebSocketClose(t) EXCEPT !.pollingInterval = FALSE, !.websocket = "null",
                            !.eventSource = "null"]

\* the switch of initialize() on config.method
InitTransport(cfg, t) ==
  CASE cfg.method = "polling" -> initPolling(t)
    [] cfg.method = "websocket" -> initWebSocket(cfg, t)
    [] cfg.method = "sse" -> initSSE(cfg, t)

\* the callbacks a SyncService can be handed
Callbacks == {"cb1", "cb2"}

\* a callback that throws whenever it is called
Throwing == {"cbThrows"}

\* how far forEach gets through the callbacks: to the first that throws, or to the end
FirstThrow(cbs) ==
  IF \E i \in 1..Len(cbs) : cbs[i] \in Throwing
    THEN CHOOSE i \in 1..Len(cbs) : cbs[i] \in Throwing /\ \A j \in 1..(i - 1) : cbs[j] \notin Throwing
    ELSE Len(cbs)

\* does notifyStateChange() throw
NotifyThrows(c) == \E i \in 1..Len(onStateChangeCallbacks[c]) : onStateChangeCallbacks[c][i] \in Throwing

\* notifyStateChange(): every registered callback, in order, with this.state; forEach
\* stops at a callback that throws
notifyStateChange(c, doc) ==
  [i \in 1..FirstThrow(onStateChangeCallbacks[c]) |->
     [callback |-> onStateChangeCallbacks[c][i], state |-> doc]]

\* the messages of the socket protocol
Identify == [type |-> "identify", state |-> Null]
StateUpdate(doc) == [type |-> "state_update", state |-> doc]

\* the partialState arguments (Partial<SyncedState>) of updateStateAndPublish
Partials == {[field |-> "controlMode", value |-> "manual"],
             [field |-> "signalStatus", value |-> "green"]}

\* partialState arguments that name the stamps themselves
StampPartials == {[field |-> "lastUpdated", value |-> 0],
                  [field |-> "lastUpdatedBy", value |-> "system"]}

\* { ...state, ...partialState }
Spread(doc, partial) ==
  CASE partial.field = "controlMode" -> [doc EXCEPT !.kind = "object", !.controlMode = partial.value]
    [] partial.field = "signalStatus" -> [doc EXCEPT !.kind = "object", !.signalStatus = partial.value]
    [] partial.field = "lastUpdated" -> [doc EXCEPT !.kind = "object", !.lastUpdated = partial.value]
    [] partial.field = "lastUpdatedBy" -> [doc EXCEPT !.kind = "object", !.lastUpdatedBy = partial.value]

\* does doc carry the edit
Carries(doc, partial) ==
  IF partial.field = "controlMode" THEN doc.controlMode = partial.value
  ELSE doc.signalStatus = partial.value

\* a newState in which partialState is spread over the stamps
NewStateStampedFirst(doc, partial, t, clientId) ==
  Spread([doc EXCEPT !.lastUpdated = t, !.lastUpdatedBy = clientId], partial)

\* newState of updateStateAndPublish
NewState(doc, partial, t, clientId) ==
  [Spread(doc, partial) EXCEPT !.lastUpdated = t, !.lastUpdatedBy = clientId]

\* an updateState that also takes a document as old as the one held
UpdateStateNotOlder(held, newState) ==
  IF newState.lastUpdated # Undef /\ held.lastUpdated # Undef /\ newState.lastUpdated >= held.lastUpdated
    THEN newState ELSE held

\* SyncService.updateState: the document held after newState was offered
updateState(held, newState) ==
  IF JsGreater(newState.lastUpdated, held.lastUpdated) THEN newState ELSE held

\* SyncService.updateState as a step: the document held and the notifications
Offer(c, newState) ==
  /\ state' = [state EXCEPT ![c] = updateState(@, newState)]
  /\ invoked' = [invoked EXCEPT ![c] =
       IF JsGreater(newState.lastUpdated, state[c].lastUpdated)
         THEN notifyStateChange(c, newState) ELSE <<>>]
  /\ offered' = [offered EXCEPT ![c] = <<newState>>]

\* a step of the engine that invokes no callback and sends nothing
Quiet(c) ==
  /\ invoked' = [invoked EXCEPT ![c] = <<>>]
  /\ sent' = [sent EXCEPT ![c] = <<>>]
  /\ offered' = [offered EXCEPT ![c] = <<>>]

\* the endpoint answers the GET of the k-th initialize()
InitializeGetState(c, k, ok) ==
  /\ k \in 1..Len(initialize[c])
  /\ initialize[c][k].pc = "sent"
  /\ initialize' = [initialize EXCEPT ![c][k] = [pc |-> "response", resp |-> ClientGetState(ok)]]
  /\ UNCHANGED <<endpointVars, skew, state, fetchState, publish, remotePosts, hookVars, serviceVars, outputVars>>

\* the k-th initialize() resumes: adopts savedState if truthy and notifies, then
\* starts the transport of config.method; initPolling() calls fetchState() at once
InitializeResume(c, k) ==
  /\ k \in 1..Len(initialize[c])
  /\ initialize[c][k].pc = "response"
  /\ LET savedState == initialize[c][k].resp
     IN /\ state' = [state EXCEPT ![c] = IF Falsy(savedState) THEN @ ELSE savedState]
        /\ invoked' = [invoked EXCEPT ![c] =
             IF Falsy(savedState) THEN <<>> ELSE notifyStateChange(c, savedState)]
  /\ sent' = [sent EXCEPT ![c] = <<>>]
  /\ offered' = [offered EXCEPT ![c] = <<>>]
  /\ initialize' = [initialize EXCEPT ![c][k] = [pc |-> "done", resp |-> Null]]
  /\ transport' = [transport EXCEPT ![c] = InitTransport(config[c], @)]
  /\ fetchState' = [fetchState EXCEPT ![c] =
       IF config[c].method = "polling" /\ @.pc = "idle" THEN [pc |-> "sent", resp |-> Null] ELSE @]
  /\ owed' = [owed EXCEPT ![c] =
       IF config[c].method = "websocket" /\ config[c].websocketUrl /\ @ = "owed" THEN "retried" ELSE @]
  /\ UNCHANGED <<endpointVars, skew, publish, remotePosts, hookVars,
                 config, isInitialized, onStateChangeCallbacks, cleaned>>

\* the GET of a fetchState() is answered: the one initPolling() called, or one
\* the interval sends while none is in flight
FetchGetState(c, ok) ==
  /\ \/ fetchState[c].pc = "sent"
     \/ fetchState[c].pc = "idle" /\ transport[c].pollingInterval
  /\ fetchState' = [fetchState EXCEPT ![c] = [pc |-> "response", resp |-> ClientGetState(ok)]]
  /\ UNCHANGED <<endpointVars, skew, state, initialize, publish, remotePosts, hookVars, serviceVars, outputVars>>

\* a fetchState() that stops polling and forgets the document when a fetch fails
FetchResumeStoppingOnFailure(c) ==
  /\ fetchState[c].pc = "response"
  /\ IF Falsy(fetchState[c].resp)
       THEN /\ state' = [state EXCEPT ![c] = EmptyObject]
            /\ invoked' = [invoked EXCEPT ![c] = notifyStateChange(c, EmptyObject)]
            /\ transport' = [transport EXCEPT ![c].pollingInterval = FALSE]
            /\ offered' = [offered EXCEPT ![c] = <<>>]
       ELSE Offer(c, fetchState[c].resp) /\ UNCHANGED transport
  /\ sent' = [sent EXCEPT ![c] = <<>>]
  /\ fetchState' = [fetchState EXCEPT ![c] = NoRequest]
  /\ UNCHANGED <<endpointVars, skew, initialize, publish, remotePosts, hookVars,
                 config, isInitialized, onStateChangeCallbacks, cleaned, owed>>

\* fetchState() resumes: updateState(state) if the adapter returned a document
FetchResume(c) ==
  /\ fetchState[c].pc = "response"
  /\ IF Falsy(fetchState[c].resp)
       THEN UNCHANGED state /\ invoked' = [invoked EXCEPT ![c] = <<>>] /\ offered' = [offered EXCEPT ![c] = <<>>]
       ELSE Offer(c, fetchState[c].resp)
  /\ sent' = [sent EXCEPT ![c] = <<>>]
  /\ fetchState' = [fetchState EXCEPT ![c] = NoRequest]
  /\ UNCHANGED <<endpointVars, skew, initialize, publish, remotePosts, hookVars, serviceVars>>

\* every call of updateStateAndPublish made so far has returned
Returned(c) == \A k \in 1..Len(publish[c]) : publish[c][k].pc = "returned"

\* updateStateAndPublish(partialState) up to its await of saveState: builds
\* newState from this.state and sends the POST
PublishCall(c, partial) ==
  /\ LET call == [partial |-> partial,
                   newState |-> NewState(state[c], partial, ClientNow(c), c),
                   pc |-> "sent", ok |-> FALSE, result |-> FALSE,
                   overlaps |-> ~Returned(c)]
     IN publish' = [publish EXCEPT ![c] = Append(@, call)]
  /\ Quiet(c)
  /\ UNCHANGED <<endpointVars, skew, state, initialize, fetchState, remotePosts, hookVars, serviceVars>>

\* the endpoint handles the POST of saveState, its own adapter requests
\* succeeding, or the request fails; saveState returns response.ok
PublishSaveState(c, k, ok) ==
  /\ k \in 1..Len(publish[c])
  /\ publish[c][k].pc = "sent"
  /\ LET r == Serial(variant, currentState, JsonRoundTrip(publish[c][k].newState), now)
     IN /\ currentState' = IF ok THEN r.stored ELSE currentState
        /\ pushed' = IF ok /\ variant = "route" /\ r.admitted THEN notifyClients(r.stored) ELSE pushed
        /\ publish' = [publish EXCEPT ![c][k].pc = "response",
                                      ![c][k].ok = ok /\ r.status = 200]
  /\ UNCHANGED <<variant, now, post, getResp, clients,
                 skew, state, initialize, fetchState, remotePosts, hookVars, serviceVars, outputVars>>

\* a publish that takes every save for a success
PublishResumeIgnoringFailure(c, k) ==
  /\ k \in 1..Len(publish[c])
  /\ publish[c][k].pc = "response"
  /\ state' = [state EXCEPT ![c] = publish[c][k].newState]
  /\ invoked' = [invoked EXCEPT ![c] = notifyStateChange(c, publish[c][k].newState)]
  /\ sent' = [sent EXCEPT ![c] =
       IF transport[c].websocket = "open" THEN <<StateUpdate(publish[c][k].newState)>> ELSE <<>>]
  /\ offered' = [offered EXCEPT ![c] = <<>>]
  /\ publish' = [publish EXCEPT ![c][k].pc = "returned", ![c][k].result = publish[c][k].ok]
  /\ UNCHANGED <<endpointVars, skew, initialize, fetchState, remotePosts, hookVars, serviceVars>>

\* updateStateAndPublish resumes: false if the save failed; else the state_update
\* is sent if the socket is open, this.state = newState, the callbacks are
\* notified, true; a callback that throws is caught like the failed save, false
PublishResume(c, k) ==
  /\ k \in 1..Len(publish[c])
  /\ publish[c][k].pc = "response"
  /\ IF publish[c][k].ok
       THEN /\ state' = [state EXCEPT ![c] = publish[c][k].newState]
            /\ invoked' = [invoked EXCEPT ![c] = notifyStateChange(c, publish[c][k].newState)]
            /\ sent' = [sent EXCEPT ![c] =
                 IF transport[c].websocket = "open"
                   THEN <<StateUpdate(publish[c][k].newState)>> ELSE <<>>]
            /\ offered' = [offered EXCEPT ![c] = <<>>]
       ELSE UNCHANGED state /\ Quiet(c)
  /\ publish' = [publish EXCEPT ![c][k].pc = "returned",
                                ![c][k].result = publish[c][k].ok /\ ~NotifyThrows(c)]
  /\ UNCHANGED <<endpointVars, skew, initialize, fetchState, remotePosts, hookVars, serviceVars>>

\* onStateChange that registers the callback and leaves the replay to the next update
OnStateChangeWithoutReplay(c, cb) ==
  /\ onStateChangeCallbacks' = [onStateChangeCallbacks EXCEPT ![c] = Append(@, cb)]
  /\ Quiet(c)
  /\ UNCHANGED <<endpointVars, skew, state, initialize, fetchState, publish, remotePosts, hookVars,
                 config, isInitialized, transport, cleaned, owed>>

\* onStateChange(callback): pushes the callback and calls it with this.state
onStateChange(c, cb) ==
  /\ onStateChangeCallbacks' = [onStateChangeCallbacks EXCEPT ![c] = Append(@, cb)]
  /\ invoked' = [invoked EXCEPT ![c] = <<[callback |-> cb, state |-> state[c]]>>]
  /\ sent' = [sent EXCEPT ![c] = <<>>]
  /\ offered' = [offered EXCEPT ![c] = <<>>]
  /\ UNCHANGED <<endpointVars, skew, state, initialize, fetchState, publish, remotePosts, hookVars,
                 config, isInitialized, transport, cleaned, owed>>

\* the function onStateChange returned: filters the callback out
Unsubscribe(c, cb) ==
  /\ \E i \in 1..Len(onStateChangeCallbacks[c]) : onStateChangeCallbacks[c][i] = cb
  /\ onStateChangeCallbacks' = [onStateChangeCallbacks EXCEPT ![c] = SelectSeq(@, LAMBDA x : x # cb)]
  /\ Quiet(c)
  /\ UNCHANGED <<endpointVars, skew, state, initialize, fetchState, publish, remotePosts, hookVars,
                 config, isInitialized, transport, cleaned, owed>>

\* a reconfiguration that starts from a fresh list of callbacks
UpdateConfigDroppingCallbacks(c, partial) ==
  /\ config' = [config EXCEPT ![c] = MergeConfig(@, partial)]
  /\ transport' = [transport EXCEPT ![c] = cleanup(@)]
  /\ isInitialized' = [isInitialized EXCEPT ![c] = TRUE]
  /\ initialize' = [initialize EXCEPT ![c] = Append(@, [pc |-> "sent", resp |-> Null])]
  /\ cleaned' = [cleaned EXCEPT ![c] = FALSE]
  /\ onStateChangeCallbacks' = [onStateChangeCallbacks EXCEPT ![c] = <<>>]
  /\ Quiet(c)
  /\ UNCHANGED <<endpointVars, skew, state, fetchState, publish, remotePosts, hookVars, owed>>

\* updateConfig(config): merges the config, cleanup(), isInitialized = false, and
\* initialize() up to its await of getState (which sets isInitialized again)
updateConfig(c, partial) ==
  /\ config' = [config EXCEPT ![c] = MergeConfig(@, partial)]
  /\ transport' = [transport EXCEPT ![c] = cleanup(@)]
  /\ isInitialized' = [isInitialized EXCEPT ![c] = TRUE]
  /\ initialize' = [initialize EXCEPT ![c] = Append(@, [pc |-> "sent", resp |-> Null])]
  /\ cleaned' = [cleaned EXCEPT ![c] = FALSE]
  /\ Quiet(c)
  /\ UNCHANGED <<endpointVars, skew, state, fetchState, publish, remotePosts, hookVars,
                 onStateChangeCallbacks, owed>>

\* getSyncService(config) when the instance exists: updateConfig(config)
getSyncService(c, cfg) == updateConfig(c, cfg)

\* cleanup() called by the owner of the engine
Cleanup(c) ==
  /\ transport' = [transport EXCEPT ![c] = cleanup(@)]
  /\ cleaned' = [cleaned EXCEPT ![c] = TRUE]
  /\ Quiet(c)
  /\ UNCHANGED <<endpointVars, skew, state, initialize, fetchState, publish, remotePosts, hookVars,
                 config, isInitialized, onStateChangeCallbacks, owed>>

\* websocket.onopen: the connection is established and the identify message sent
SocketOpen(c) ==
  /\ transport[c].websocket = "connecting"
  /\ transport' = [transport EXCEPT ![c].websocket = "open"]
  /\ invoked' = [invoked EXCEPT ![c] = <<>>]
  /\ sent' = [sent EXCEPT ![c] = <<Identify>>]
  /\ offered' = [offered EXCEPT ![c] = <<>>]
  /\ UNCHANGED <<endpointVars, skew, state, initialize, fetchState, publish, remotePosts, hookVars,
                 config, isInitialized, onStateChangeCallbacks, cleaned, owed>>

\* the connection of the socket held fails or is lost: onerror, then onclose
SocketLost(c) ==
  /\ LiveSocket(transport[c])
  /\ transport' = [transport EXCEPT ![c] = onclose([@ EXCEPT !.websocket = "closed"])]
  /\ owed' = [owed EXCEPT ![c] = "owed"]
  /\ Quiet(c)
  /\ UNCHANGED <<endpointVars, skew, state, initialize, fetchState, publish, remotePosts, hookVars,
                 config, isInitialized, onStateChangeCallbacks, cleaned>>

\* the close event of a socket on which close() was called: onclose
SocketClosed(c) ==
  /\ transport[c].closing > 0
  /\ transport' = [transport EXCEPT ![c] = onclose([@ EXCEPT !.closing = @ - 1])]
  /\ Quiet(c)
  /\ UNCHANGED <<endpointVars, skew, state, initialize, fetchState, publish, remotePosts, hookVars,
                 config, isInitialized, onStateChangeCallbacks, cleaned, owed>>

\* a timer set by onclose fires: initWebSocket()
Reconnect(c) ==
  /\ transport[c].reconnect > 0
  /\ transport' = [transport EXCEPT ![c] = initWebSocket(config[c], [@ EXCEPT !.reconnect = @ - 1])]
  /\ owed' = [owed EXCEPT ![c] = IF config[c].websocketUrl /\ @ = "owed" THEN "retried" ELSE @]
  /\ Quiet(c)
  /\ UNCHANGED <<endpointVars, skew, state, initialize, fetchState, publish, remotePosts, hookVars,
                 config, isInitialized, onStateChangeCallbacks, cleaned>>

\* websocket.onmessage: a state_update is offered to updateState, any other
\* message is ignored
SocketMessage(c, msg) ==
  /\ transport[c].websocket = "open"
  /\ IF msg.type = "state_update"
       THEN Offer(c, msg.state)
       ELSE UNCHANGED state /\ invoked' = [invoked EXCEPT ![c] = <<>>] /\ offered' = [offered EXCEPT ![c] = <<>>]
  /\ sent' = [sent EXCEPT ![c] = <<>>]
  /\ UNCHANGED <<endpointVars, skew, initialize, fetchState, publish, remotePosts, hookVars, serviceVars>>

\* eventSource.onerror on the event source held
StreamError(c) ==
  /\ transport[c].eventSource = "live"
  /\ transport' = [transport EXCEPT ![c] = onerror(@)]
  /\ Quiet(c)
  /\ UNCHANGED <<endpointVars, skew, state, initialize, fetchState, publish, remotePosts, hookVars,
                 config, isInitialized, onStateChangeCallbacks, cleaned, owed>>

\* a timer set by onerror fires: initSSE()
StreamRetry(c) ==
  /\ transport[c].retry > 0
  /\ transport' = [transport EXCEPT ![c] = initSSE(config[c], [@ EXCEPT !.retry = @ - 1])]
  /\ Quiet(c)
  /\ UNCHANGED <<endpointVars, skew, state, initialize, fetchState, publish, remotePosts, hookVars,
                 config, isInitialized, onStateChangeCallbacks, cleaned, owed>>

\* eventSource.onmessage: the document is offered to updateState
StreamMessage(c, doc) ==
  /\ transport[c].eventSource = "live"
  /\ Offer(c, doc)
  /\ sent' = [sent EXCEPT ![c] = <<>>]
  /\ UNCHANGED <<endpointVars, skew, initialize, fetchState, publish, remotePosts, hookVars, serviceVars>>

\* ------------------------------------------------------------------ hook
\* the simplified polling hook of a component that is not mounted; d is the
\* defaultState of its module
Unmounted(d) ==
  [mounted |-> FALSE, state |-> d, defaultState |-> d,
   fetch |-> NoRequest, post |-> [pc |-> "idle", body |-> Null]]

\* the component mounts: useState(defaultState), then the effect loads the item of
\* localStorage if there is one, calls fetchState() and sets the interval, both
\* with the fetchState of the first render, in which state is defaultState
HookMount(c) ==
  /\ ~hook[c].mounted
  /\ hook' = [hook EXCEPT ![c].mounted = TRUE,
                          ![c].state = IF Falsy(localStorage[c]) THEN hook[c].defaultState
                                       ELSE JsonRoundTrip(localStorage[c]),
                          ![c].fetch = [pc |-> "sent", resp |-> Null]]
  /\ UNCHANGED <<endpointVars, skew, state, initialize, fetchState, publish, remotePosts,
                 localStorage, serviceVars, outputVars>>

\* the component unmounts, no request of it being in flight: clearInterval
HookUnmount(c) ==
  /\ hook[c].mounted
  /\ hook[c].fetch.pc = "idle" /\ hook[c].post.pc = "idle"
  /\ hook' = [hook EXCEPT ![c] = Unmounted(hook[c].defaultState)]
  /\ UNCHANGED <<endpointVars, skew, state, initialize, fetchState, publish, remotePosts,
                 localStorage, serviceVars, outputVars>>

\* the GET of the hook's fetchState is answered: the one the effect called, or one
\* the interval sends while none is in flight; data is kept only if response.ok
HookFetchGetState(c, ok) ==
  /\ hook[c].mounted
  /\ hook[c].fetch.pc \in {"idle", "sent"}
  /\ hook' = [hook EXCEPT ![c].fetch = [pc |-> "response", resp |-> ClientGetState(ok)]]
  /\ UNCHANGED <<endpointVars, skew, state, initialize, fetchState, publish, remotePosts,
                 localStorage, serviceVars, outputVars>>

\* data && data.lastUpdated && data.lastUpdated > state.lastUpdated, state being
\* the document of the render whose fetchState this is
HookNewer(data, closed) ==
  ~Falsy(data) /\ data.lastUpdated # Undef /\ data.lastUpdated # 0
  /\ JsGreater(data.lastUpdated, closed.lastUpdated)

\* the hook's fetchState resumes: setState(data) and the item of localStorage is
\* written, if the test passes; the effect and the interval call the fetchState of
\* the first render, so the document compared with is defaultState
HookFetchResume(c) ==
  /\ hook[c].fetch.pc = "response"
  /\ LET data == hook[c].fetch.resp
         adopt == HookNewer(data, hook[c].defaultState)
     IN /\ hook' = [hook EXCEPT ![c].fetch = NoRequest,
                                ![c].state = IF adopt THEN data ELSE @]
        /\ localStorage' = [localStorage EXCEPT ![c] = IF adopt THEN JsonRoundTrip(data) ELSE @]
  /\ UNCHANGED <<endpointVars, skew, state, initialize, fetchState, publish, remotePosts,
                 serviceVars, outputVars>>

\* the hook's updateState up to its await of the POST: newState is built from the
\* document held, set as the document held and written to localStorage
HookUpdateState(c, partial) ==
  /\ hook[c].mounted
  /\ hook[c].post.pc = "idle"
  /\ LET newState == NewState(hook[c].state, partial, ClientNow(c), "user")
     IN /\ hook' = [hook EXCEPT ![c].state = newState,
                                ![c].post = [pc |-> "sent", body |-> newState]]
        /\ localStorage' = [localStorage EXCEPT ![c] = JsonRoundTrip(newState)]
  /\ UNCHANGED <<endpointVars, skew, state, initialize, fetchState, publish, remotePosts,
                 serviceVars, outputVars>>

\* the endpoint handles the hook's POST, or the request fails; updateState returns
HookPostHandled(c, ok) ==
  /\ hook[c].post.pc = "sent"
  /\ LET r == Serial(variant, currentState, JsonRoundTrip(hook[c].post.body), now)
     IN /\ currentState' = IF ok THEN r.stored ELSE currentState
        /\ pushed' = IF ok /\ variant = "route" /\ r.admitted THEN notifyClients(r.stored) ELSE pushed
  /\ hook' = [hook EXCEPT ![c].post = [pc |-> "idle", body |-> Null]]
  /\ UNCHANGED <<variant, now, post, getResp, clients,
                 skew, state, initialize, fetchState, publish, remotePosts,
                 localStorage, serviceVars, outputVars>>

\* what a caller that modifies the object it holds does to it
Mutate(doc) == [doc EXCEPT !.signalStatus = "tampered"]

\* the i-th callback of the engine's latest notification modifies the object it
\* was handed: callback(this.state) hands over this.state itself, and so did
\* every other callback of that notification receive it
CallbackMutates(c, i) ==
  /\ i \in 1..Len(invoked[c])
  /\ state' = [state EXCEPT ![c] = Mutate(@)]
  /\ invoked' = [invoked EXCEPT ![c] = [j \in 1..Len(@) |-> [@[j] EXCEPT !.state = Mutate(state[c])]]]
  /\ UNCHANGED <<endpointVars, skew, initialize, fetchState, publish, remotePosts, hookVars, serviceVars, sent, offered>>

\* the owner calls getState() and modifies the object returned: return this.state
GetStateMutates(c) ==
  /\ state' = [state EXCEPT ![c] = Mutate(@)]
  /\ Quiet(c)
  /\ UNCHANGED <<endpointVars, skew, initialize, fetchState, publish, remotePosts, hookVars, serviceVars>>

\* ------------------------------------------------------------------ Spec
\* One endpoint, requests handled one after the other.
NoneInFlight == \A h \in Slots : post[h].pc \in {"idle", "done"}

Init ==
  /\ variant \in Variants
  /\ currentState = Null
  /\ now = 1
  /\ post = [h \in Slots |-> IdleHandler]
  /\ prevBody = Null
  /\ getResp = Null
  /\ clients = {}
  /\ pushed = {}
  /\ opened = {}
  /\ arrival = [h \in Slots |-> 0]
  /\ skew = [c \in Clients |-> 0]
  /\ state = [c \in Clients |-> defaultState(1)]
  /\ initialize = [c \in Clients |-> <<>>]
  /\ fetchState = [c \in Clients |-> NoRequest]
  /\ publish = [c \in Clients |-> <<>>]
  /\ remotePosts = 0
  /\ hook = [c \in Clients |-> Unmounted(state[c])]
  /\ localStorage = [c \in Clients |-> Null]
  /\ config = [c \in Clients |-> defaultConfig]
  /\ isInitialized = [c \in Clients |-> FALSE]
  /\ transport = [c \in Clients |-> NoTransport]
  /\ onStateChangeCallbacks = [c \in Clients |-> <<>>]
  /\ invoked = [c \in Clients |-> <<>>]
  /\ sent = [c \in Clients |-> <<>>]
  /\ offered = [c \in Clients |-> <<>>]
  /\ cleaned = [c \in Clients |-> FALSE]
  /\ owed = [c \in Clients |-> "none"]

\* the body of the POST that slot 1 finished becomes the previous body
Remember ==
  /\ prevBody' = IF post[1].pc = "done" THEN post[1].body ELSE prevBody
  /\ UNCHANGED <<arrival, opened, engineVars>>

Next ==
  \/ \E body \in Bodies : SimplifiedPOST(1, body) /\ Remember
  \/ \E body \in Bodies : RoutePOST(1, body) /\ Remember
  \/ \E ok \in BOOLEAN : RouteGetState(1, ok) /\ UNCHANGED <<historyVars, engineVars>>
  \/ \E ok \in BOOLEAN : RouteSaveState(1, ok) /\ UNCHANGED <<historyVars, engineVars>>
  \/ \E ok \in BOOLEAN : NoneInFlight /\ GET(ok) /\ UNCHANGED <<historyVars, engineVars>>
  \/ Tick /\ UNCHANGED <<historyVars, engineVars>>

Spec == Init /\ [][Next]_vars

\* ------------------------------------------------------------------ SpecPush
\* The same endpoint when clients also send the request of the server-push
\* stream; the POSTs carry documents, one after the other.
PushNext ==
  \/ \E body \in Documents : SimplifiedPOST(1, body) /\ Remember
  \/ \E body \in Documents : RoutePOST(1, body) /\ Remember
  \/ \E ok \in BOOLEAN : RouteGetState(1, ok) /\ UNCHANGED <<historyVars, engineVars>>
  \/ \E ok \in BOOLEAN : RouteSaveState(1, ok) /\ UNCHANGED <<historyVars, engineVars>>
  \/ \E id \in Clients, ok \in BOOLEAN :
       NoneInFlight /\ StreamGET(id, ok) /\ UNCHANGED <<prevBody, arrival, engineVars>>
  \/ Tick /\ UNCHANGED <<historyVars, engineVars>>

SpecPush == Init /\ [][PushNext]_vars

\* ------------------------------------------------------------------ SpecRace
\* One endpoint, two POST handlers that may be in flight together, handlers
\* interleaving at their awaits; the adapter's requests all succeed here.
InFlight(h) == post[h].pc \in {"getState", "saveState"}

\* a request arrives in slot h: it overlaps the other handler if that is in flight
Arrive(h) ==
  arrival' = [g \in Slots |->
                IF \E o \in Slots \ {h} : InFlight(o)
                  THEN (IF g = h THEN 2 ELSE 1)
                  ELSE (IF g = h THEN 0 ELSE arrival[g])]

RaceNext ==
  \/ \E h \in Slots, body \in Documents : SimplifiedPOST(h, body) /\ Arrive(h) /\ UNCHANGED <<prevBody, opened, engineVars>>
  \/ \E h \in Slots, body \in Documents : RoutePOST(h, body) /\ Arrive(h) /\ UNCHANGED <<prevBody, opened, engineVars>>
  \/ \E h \in Slots : RouteGetState(h, TRUE) /\ UNCHANGED <<historyVars, engineVars>>
  \/ \E h \in Slots : RouteSaveState(h, TRUE) /\ UNCHANGED <<historyVars, engineVars>>
  \/ GET(TRUE) /\ UNCHANGED <<historyVars, engineVars>>
  \/ Tick /\ UNCHANGED <<historyVars, engineVars>>

SpecRace == Init /\ [][RaceNext]_vars

\* ------------------------------------------------------------------ SpecSync
\* A SyncService that polls one endpoint, to which other participants POST as
\* well. It was constructed at clock reading SyncStart and awaits the getState
\* of initialize().
SyncStart == 2
\* how many calls of updateStateAndPublish a client makes in all
MaxPublish == 2

\* how many documents the other participants POST in all
MaxRemote == 1

\* what another participant publishes: a document stamped by its own clock
RemoteDocuments == {Value("object", "manual", "red", lu, "c2") : lu \in 1..MaxStamp}

\* another participant's POST is handled by the endpoint
RemotePOST(body) ==
  /\ remotePosts < MaxRemote
  /\ remotePosts' = remotePosts + 1
  /\ LET r == Serial(variant, currentState, body, now)
     IN /\ currentState' = r.stored
        /\ pushed' = IF variant = "route" /\ r.admitted THEN notifyClients(r.stored) ELSE pushed
  /\ UNCHANGED <<variant, now, post, getResp, clients, historyVars,
                 skew, state, initialize, fetchState, publish, hookVars, serviceVars, outputVars>>

SyncInit ==
  /\ variant \in Variants
  /\ currentState = Null
  /\ now = SyncStart
  /\ post = [h \in Slots |-> IdleHandler]
  /\ prevBody = Null
  /\ getResp = Null
  /\ clients = {}
  /\ pushed = {}
  /\ opened = {}
  /\ arrival = [h \in Slots |-> 0]
  /\ skew \in [Clients -> Skews]
  /\ state = [c \in Clients |-> defaultState(SyncStart + skew[c])]
  /\ initialize = [c \in Clients |-> <<[pc |-> "sent", resp |-> Null]>>]
  /\ fetchState = [c \in Clients |-> NoRequest]
  /\ publish = [c \in Clients |-> <<>>]
  /\ remotePosts = 0
  /\ hook = [c \in Clients |-> Unmounted(state[c])]
  /\ localStorage = [c \in Clients |-> Null]
  /\ config = [c \in Clients |-> defaultConfig]
  /\ isInitialized = [c \in Clients |-> TRUE]
  /\ transport = [c \in Clients |-> NoTransport]
  /\ onStateChangeCallbacks = [c \in Clients |-> <<>>]
  /\ invoked = [c \in Clients |-> <<>>]
  /\ sent = [c \in Clients |-> <<>>]
  /\ offered = [c \in Clients |-> <<>>]
  /\ cleaned = [c \in Clients |-> FALSE]
  /\ owed = [c \in Clients |-> "none"]

SyncNext ==
  \/ \E c \in Clients, ok \in BOOLEAN : InitializeGetState(c, 1, ok) /\ UNCHANGED historyVars
  \/ \E c \in Clients : InitializeResume(c, 1) /\ UNCHANGED historyVars
  \/ \E c \in Clients, ok \in BOOLEAN : FetchGetState(c, ok) /\ UNCHANGED historyVars
  \/ \E c \in Clients : FetchResume(c) /\ UNCHANGED historyVars
  \/ \E c \in Clients, partial \in Partials :
       Len(publish[c]) < MaxPublish /\ PublishCall(c, partial) /\ UNCHANGED historyVars
  \/ \E c \in Clients, k \in 1..MaxPublish, ok \in BOOLEAN : PublishSaveState(c, k, ok) /\ UNCHANGED historyVars
  \/ \E c \in Clients, k \in 1..MaxPublish : PublishResume(c, k) /\ UNCHANGED historyVars
  \/ \E body \in RemoteDocuments : RemotePOST(body)
  \/ Tick /\ UNCHANGED <<historyVars, engineVars>>

SpecSync == SyncInit /\ [][SyncNext]_vars

\* ------------------------------------------------------------------ SpecConverge
\* The same participants when every request succeeds. The interval keeps firing
\* and every request is answered, so each step of the engine that is possible is
\* eventually taken; calls of updateStateAndPublish and the other participants'
\* POSTs are the users' choice, and finitely many.
Loaded(c) == InitializeGetState(c, 1, TRUE) /\ UNCHANGED historyVars
LoadResumed(c) == InitializeResume(c, 1) /\ UNCHANGED historyVars
Fetched(c) == FetchGetState(c, TRUE) /\ UNCHANGED historyVars
FetchResumed(c) == FetchResume(c) /\ UNCHANGED historyVars
Saved(c, k) == PublishSaveState(c, k, TRUE) /\ UNCHANGED historyVars
SaveResumed(c, k) == PublishResume(c, k) /\ UNCHANGED historyVars

Called ==
  \E c \in Clients, partial \in Partials :
    Len(publish[c]) < MaxPublish /\ PublishCall(c, partial) /\ UNCHANGED historyVars

ConvergeNext ==
  \/ \E c \in Clients : Loaded(c)
  \/ \E c \in Clients : LoadResumed(c)
  \/ \E c \in Clients : Fetched(c)
  \/ \E c \in Clients : FetchResumed(c)
  \/ \E c \in Clients, k \in 1..MaxPublish : Saved(c, k)
  \/ \E c \in Clients, k \in 1..MaxPublish : SaveResumed(c, k)
  \/ Called
  \/ \E body \in RemoteDocuments : RemotePOST(body)
  \/ Tick /\ UNCHANGED <<historyVars, engineVars>>

ConvergeFairness ==
  \A c \in Clients :
    /\ WF_vars(Loaded(c)) /\ WF_vars(LoadResumed(c))
    /\ WF_vars(Fetched(c)) /\ WF_vars(FetchResumed(c))
    /\ \A k \in 1..MaxPublish : WF_vars(Saved(c, k)) /\ WF_vars(SaveResumed(c, k))

SpecConverge == SyncInit /\ [][ConvergeNext]_vars /\ ConvergeFairness

\* ------------------------------------------------------------------ SpecLife
\* The transport of one SyncService over its life: constructed with any method,
\* reconfigured and cleaned up by its owner while its sockets and streams open,
\* deliver, fail and close. No callback is registered and nothing is published.
\* The endpoint is the in-memory one; the engine cannot tell the two apart.
\* how many times updateConfig or getSyncService(config) is called in all
MaxConfig == 1

\* the configurations an engine is constructed with: both URLs provided, or neither
LifeConfigs == {cfg \in Configs : cfg.websocketUrl = cfg.sseUrl}

\* the arguments of updateConfig: a change of method
ConfigPartials == {[method |-> m] : m \in Methods}

\* what a socket delivers: a state_update with another participant's document, or
\* a message of another type
Messages == {StateUpdate(doc) : doc \in RemoteDocuments} \cup {Identify}

LifeInit ==
  /\ variant = "simplified"
  /\ currentState = Null
  /\ now = SyncStart
  /\ post = [h \in Slots |-> IdleHandler]
  /\ prevBody = Null
  /\ getResp = Null
  /\ clients = {}
  /\ pushed = {}
  /\ opened = {}
  /\ arrival = [h \in Slots |-> 0]
  /\ skew = [c \in Clients |-> 0]
  /\ state = [c \in Clients |-> defaultState(SyncStart)]
  /\ initialize = [c \in Clients |-> <<[pc |-> "sent", resp |-> Null]>>]
  /\ fetchState = [c \in Clients |-> NoRequest]
  /\ publish = [c \in Clients |-> <<>>]
  /\ remotePosts = 0
  /\ hook = [c \in Clients |-> Unmounted(state[c])]
  /\ localStorage = [c \in Clients |-> Null]
  /\ config \in [Clients -> LifeConfigs]
  /\ isInitialized = [c \in Clients |-> TRUE]
  /\ transport = [c \in Clients |-> NoTransport]
  /\ onStateChangeCallbacks = [c \in Clients |-> <<>>]
  /\ invoked = [c \in Clients |-> <<>>]
  /\ sent = [c \in Clients |-> <<>>]
  /\ offered = [c \in Clients |-> <<>>]
  /\ cleaned = [c \in Clients |-> FALSE]
  /\ owed = [c \in Clients |-> "none"]

\* the steps of the initial load and of polling
LifeLoad ==
  \/ \E c \in Clients, k \in 1..(MaxConfig + 1), ok \in BOOLEAN : InitializeGetState(c, k, ok)
  \/ \E c \in Clients, k \in 1..(MaxConfig + 1) : InitializeResume(c, k)
  \/ \E c \in Clients, ok \in BOOLEAN : FetchGetState(c, ok)
  \/ \E c \in Clients : FetchResume(c)

\* the calls of the engine's owner
LifeCalls ==
  \/ \E c \in Clients, partial \in ConfigPartials :
       Len(initialize[c]) <= MaxConfig /\ updateConfig(c, partial)
  \/ \E c \in Clients, cfg \in LifeConfigs :
       Len(initialize[c]) <= MaxConfig /\ getSyncService(c, cfg)
  \/ \E c \in Clients : Cleanup(c)

\* the events of the socket
SocketEvents ==
  \/ \E c \in Clients : SocketOpen(c)
  \/ \E c \in Clients : SocketLost(c)
  \/ \E c \in Clients : SocketClosed(c)
  \/ \E c \in Clients : Reconnect(c)
  \/ \E c \in Clients, msg \in Messages : SocketMessage(c, msg)

\* the events of the stream
StreamEvents ==
  \/ \E c \in Clients : StreamError(c)
  \/ \E c \in Clients : StreamRetry(c)
  \/ \E c \in Clients, doc \in RemoteDocuments : StreamMessage(c, doc)

LifeNext ==
  \/ LifeLoad /\ UNCHANGED historyVars
  \/ LifeCalls /\ UNCHANGED historyVars
  \/ SocketEvents /\ UNCHANGED historyVars
  \/ StreamEvents /\ UNCHANGED historyVars
  \/ \E body \in RemoteDocuments : RemotePOST(body)

SpecLife == LifeInit /\ [][LifeNext]_vars

\* ------------------------------------------------------------------ SpecReconnect
\* The same life when the browser delivers every close event and fires every
\* timer that onclose has set, and every getState of an initialize() settles, one
\* way or the other, and initialize() resumes; everything else may or may not happen.
CloseDelivered(c) == SocketClosed(c) /\ UNCHANGED historyVars
TimerFired(c) == Reconnect(c) /\ UNCHANGED historyVars
LoadSettled(c, k) == (\E ok \in BOOLEAN : InitializeGetState(c, k, ok)) /\ UNCHANGED historyVars
LoadContinued(c, k) == InitializeResume(c, k) /\ UNCHANGED historyVars

ReconnectFairness ==
  \A c \in Clients :
    /\ WF_vars(CloseDelivered(c)) /\ WF_vars(TimerFired(c))
    /\ \A k \in 1..(MaxConfig + 1) : WF_vars(LoadSettled(c, k)) /\ WF_vars(LoadContinued(c, k))

SpecReconnect == LifeInit /\ [][LifeNext]_vars /\ ReconnectFairness

\* ------------------------------------------------------------------ SpecNotify
\* One SyncService and the callbacks registered with it: it loads, polls or
\* listens on its socket, publishes and is reconfigured, while callbacks are
\* registered and removed and other participants POST to the endpoint.
\* how many callbacks are registered at a time
MaxCallbacks == 2
\* how many calls of updateStateAndPublish this engine makes in all
MaxSaves == 1

\* the configurations this engine is constructed with
NotifyConfigs == {cfg \in LifeConfigs : cfg.websocketUrl /\ cfg.method \in {"polling", "websocket"}}

NotifyInit ==
  /\ LifeInit
  /\ config \in [Clients -> NotifyConfigs]

NotifyNext ==
  \/ LifeLoad /\ UNCHANGED historyVars
  \/ \E c \in Clients, partial \in Partials :
       Len(publish[c]) < MaxSaves /\ PublishCall(c, partial) /\ UNCHANGED historyVars
  \/ \E c \in Clients, k \in 1..MaxSaves, ok \in BOOLEAN : PublishSaveState(c, k, ok) /\ UNCHANGED historyVars
  \/ \E c \in Clients, k \in 1..MaxSaves : PublishResume(c, k) /\ UNCHANGED historyVars
  \/ \E c \in Clients, cb \in Callbacks :
       Len(onStateChangeCallbacks[c]) < MaxCallbacks /\ onStateChange(c, cb) /\ UNCHANGED historyVars
  \/ \E c \in Clients, cb \in Callbacks : Unsubscribe(c, cb) /\ UNCHANGED historyVars
  \/ \E c \in Clients, partial \in ConfigPartials :
       Len(initialize[c]) <= MaxConfig /\ updateConfig(c, partial) /\ UNCHANGED historyVars
  \/ \E c \in Clients, cfg \in NotifyConfigs :
       Len(initialize[c]) <= MaxConfig /\ getSyncService(c, cfg) /\ UNCHANGED historyVars
  \/ \E c \in Clients : SocketOpen(c) /\ UNCHANGED historyVars
  \/ \E c \in Clients, msg \in Messages : SocketMessage(c, msg) /\ UNCHANGED historyVars
  \/ \E body \in RemoteDocuments : RemotePOST(body)

SpecNotify == NotifyInit /\ [][NotifyNext]_vars

\* ------------------------------------------------------------------ SpecPublish
\* One SyncService, its clock behind, with or ahead of the server's, whose owner
\* publishes edits of any field, the stamps included, after another participant
\* may have POSTed; every request succeeds, and the polls are left out.
PublishNext ==
  \/ \E c \in Clients : InitializeGetState(c, 1, TRUE) /\ UNCHANGED historyVars
  \/ \E c \in Clients : InitializeResume(c, 1) /\ UNCHANGED historyVars
  \/ \E c \in Clients, partial \in Partials \cup StampPartials :
       Len(publish[c]) < MaxSaves /\ PublishCall(c, partial) /\ UNCHANGED historyVars
  \/ \E c \in Clients, k \in 1..MaxSaves : PublishSaveState(c, k, TRUE) /\ UNCHANGED historyVars
  \/ \E c \in Clients, k \in 1..MaxSaves : PublishResume(c, k) /\ UNCHANGED historyVars
  \/ \E body \in RemoteDocuments : RemotePOST(body)
  \/ Tick /\ UNCHANGED <<historyVars, engineVars>>

SpecPublish == SyncInit /\ [][PublishNext]_vars

\* ------------------------------------------------------------------ SpecHook
\* A component that uses the simplified polling hook instead of the SyncService:
\* it mounts, polls, edits and unmounts while another participant POSTs to the
\* same endpoint. Its clock is behind, with or ahead of the server's.
HookNext ==
  \/ \E c \in Clients : HookMount(c) /\ UNCHANGED historyVars
  \/ \E c \in Clients : HookUnmount(c) /\ UNCHANGED historyVars
  \/ \E c \in Clients, ok \in BOOLEAN : HookFetchGetState(c, ok) /\ UNCHANGED historyVars
  \/ \E c \in Clients : HookFetchResume(c) /\ UNCHANGED historyVars
  \/ \E c \in Clients, partial \in Partials : HookUpdateState(c, partial) /\ UNCHANGED historyVars
  \/ \E c \in Clients, ok \in BOOLEAN : HookPostHandled(c, ok) /\ UNCHANGED historyVars
  \/ \E body \in RemoteDocuments : RemotePOST(body)
  \/ Tick /\ UNCHANGED <<historyVars, engineVars>>

SpecHook == SyncInit /\ [][HookNext]_vars

\* ------------------------------------------------------------------ SpecOffer
\* One SyncService of any method, with its URLs provided, that is offered remote
\* documents by its polls, its socket and its stream while callbacks are
\* registered; it publishes nothing and is not reconfigured.
OfferConfigs == {cfg \in LifeConfigs : cfg.websocketUrl}

OfferInit ==
  /\ LifeInit
  /\ config \in [Clients -> OfferConfigs]

OfferNext ==
  \/ \E c \in Clients, ok \in BOOLEAN : InitializeGetState(c, 1, ok) /\ UNCHANGED historyVars
  \/ \E c \in Clients : InitializeResume(c, 1) /\ UNCHANGED historyVars
  \/ \E c \in Clients, ok \in BOOLEAN : FetchGetState(c, ok) /\ UNCHANGED historyVars
  \/ \E c \in Clients : FetchResume(c) /\ UNCHANGED historyVars
  \/ \E c \in Clients, cb \in Callbacks :
       Len(onStateChangeCallbacks[c]) < MaxCallbacks /\ onStateChange(c, cb) /\ UNCHANGED historyVars
  \/ \E c \in Clients : SocketOpen(c) /\ UNCHANGED historyVars
  \/ \E c \in Clients, msg \in Messages : SocketMessage(c, msg) /\ UNCHANGED historyVars
  \/ \E c \in Clients, doc \in RemoteDocuments : StreamMessage(c, doc) /\ UNCHANGED historyVars
  \/ \E body \in RemoteDocuments : RemotePOST(body)
  \/ Tick /\ UNCHANGED <<historyVars, engineVars>>

SpecOffer == OfferInit /\ [][OfferNext]_vars

\* ------------------------------------------------------------------ SpecSubscriber
\* One polling SyncService and subscribers that do not keep to the rules: one
\* throws whenever it is called, and callers modify the documents they are handed.
\* the callbacks registered with this engine
Subscribers == {"cb1", "cbThrows"}

SubscriberInit ==
  /\ LifeInit
  /\ config = [c \in Clients |-> defaultConfig]

SubscriberNext ==
  \/ \E c \in Clients, ok \in BOOLEAN : InitializeGetState(c, 1, ok) /\ UNCHANGED historyVars
  \/ \E c \in Clients : InitializeResume(c, 1) /\ UNCHANGED historyVars
  \/ \E c \in Clients, ok \in BOOLEAN : FetchGetState(c, ok) /\ UNCHANGED historyVars
  \/ \E c \in Clients : FetchResume(c) /\ UNCHANGED historyVars
  \/ \E c \in Clients, partial \in Partials :
       Len(publish[c]) < MaxSaves /\ PublishCall(c, partial) /\ UNCHANGED historyVars
  \/ \E c \in Clients, k \in 1..MaxSaves, ok \in BOOLEAN : PublishSaveState(c, k, ok) /\ UNCHANGED historyVars
  \/ \E c \in Clients, k \in 1..MaxSaves : PublishResume(c, k) /\ UNCHANGED historyVars
  \/ \E c \in Clients, cb \in Subscribers :
       Len(onStateChangeCallbacks[c]) < MaxCallbacks /\ onStateChange(c, cb) /\ UNCHANGED historyVars
  \/ \E c \in Clients, i \in 1..MaxCallbacks : CallbackMutates(c, i) /\ UNCHANGED historyVars
  \/ \E c \in Clients : GetStateMutates(c) /\ UNCHANGED historyVars
  \/ \E body \in RemoteDocuments : RemotePOST(body)

SpecSubscriber == SubscriberInit /\ [][SubscriberNext]_vars

\* ------------------------------------------------------------------ claims
\* The POST in slot 1 has been answered.
Handled == post[1].pc = "done"
\* The two POSTs handled last, one after the other: A = prevBody, then B = body.
AThenB ==
  /\ Handled
  /\ WellFormed(prevBody) /\ WellFormed(post[1].body)
  /\ prevBody.lastUpdated < post[1].body.lastUpdated
BThenA ==
  /\ Handled
  /\ WellFormed(prevBody) /\ WellFormed(post[1].body)
  /\ post[1].body.lastUpdated < prevBody.lastUpdated

C2_StaleAnswersStored ==
  ( /\ Handled
    /\ WellFormed(post[1].body) /\ WellFormed(post[1].before)
    /\ post[1].body.lastUpdated <= post[1].before.lastUpdated )
  => /\ post[1].status = 200
     /\ post[1].state = GetBody(post[1].before)
     /\ currentState = post[1].before

\* C7 as stated: after POST B then POST A with A.lastUpdated < B.lastUpdated, the
\* stored document is what it was when B had been handled.
C7_BThenAKeepsB == BThenA => currentState = post[1].before

\* C8 as stated: a POST of the stored document itself leaves the stored document
\* as it was, lastUpdated included.
C8_ResubmissionIsNoOp ==
  ( /\ Handled
    /\ WellFormed(post[1].body)
    /\ post[1].body = post[1].before )
  => currentState = post[1].before

\* C9 as stated: a POST whose body is not a JSON object is answered 400.
C9_NonObjectIs400 ==
  (Handled /\ post[1].body.kind # "object") => post[1].status = 400

\* C10 as stated: a POST whose body is not a JSON object leaves what GET returns
\* as it was before the POST.
C10_NonObjectStoresNothing ==
  (Handled /\ post[1].body.kind # "object")
  => GetBody(currentState) = GetBody(post[1].before)

\* C4 as stated: whenever the stored document changes, its lastUpdated is at least
\* the lastUpdated it replaces.
C4_StoredStampNeverDecreases ==
  [][ ( /\ currentState' # currentState
        /\ currentState.lastUpdated # Undef
        /\ currentState'.lastUpdated # Undef )
      => currentState'.lastUpdated >= currentState.lastUpdated ]_vars

\* Two POSTs overlapped and both have been answered; first is the slot whose
\* request arrived first, so its `before` is the document both started from.
BothAnswered(first, second) ==
  /\ arrival[first] = 1 /\ arrival[second] = 2
  /\ post[first].pc = "done" /\ post[second].pc = "done"

\* The stored document and the two responses are those of running x then y
\* alone, at some clock readings t1 <= t2 taken while the two were handled.
SerialOrder(x, y, start, from) ==
  \E t1 \in from..now : \E t2 \in t1..now :
    LET r1 == Serial(variant, start, post[x].body, t1)
        r2 == Serial(variant, r1.stored, post[y].body, t2)
    IN /\ currentState = r2.stored
       /\ post[x].status = r1.status /\ post[x].state = r1.state
       /\ post[y].status = r2.status /\ post[y].state = r2.state

\* C5 as stated: two POST handlers that ran concurrently leave the stored document
\* and the two responses of one of the two serial orders of the same requests.
C5_ConcurrentPostsSerialize ==
  \A first \in Slots : \A second \in Slots \ {first} :
    BothAnswered(first, second)
    => \/ SerialOrder(first, second, post[first].before, post[first].at)
       \/ SerialOrder(second, first, post[first].before, post[first].at)

\* The in-memory document of every modelled participant is the document GET returns.
Agreed == \A c \in Clients : state[c] = GetBody(currentState)

\* C3 as stated: once the publishes have stopped and requests keep succeeding, every
\* participant's in-memory document becomes the stored document and stays it.
C3_PollingConverges == <>[]Agreed

\* Client c made two calls of updateStateAndPublish, the second before the first
\* had returned, and both have returned.
BothReturned(c) ==
  /\ Len(publish[c]) >= 2
  /\ publish[c][1].pc = "returned" /\ publish[c][2].pc = "returned"

\* C6 as stated: when the later of two publishes made back to back returns, both
\* having succeeded and editing different fields, the in-memory document and the
\* document sent last to the adapter carry both edits.
C6_BackToBackPublishesKeepBothEdits ==
  [][ \A c \in Clients :
        ( /\ ~BothReturned(c)
          /\ BothReturned(c)'
          /\ publish'[c][2].overlaps
          /\ publish'[c][1].result /\ publish'[c][2].result
          /\ publish'[c][1].partial.field # publish'[c][2].partial.field )
        => /\ Carries(state'[c], publish'[c][1].partial)
           /\ Carries(state'[c], publish'[c][2].partial)
           /\ Carries(publish'[c][2].newState, publish'[c][1].partial) ]_vars

\* C18 as stated: after a POST whose candidate object is admitted, GET returns the
\* candidate's fields, testValue included, with lastUpdated replaced by a reading of
\* the server's clock taken while the POST was handled; a field of the previous
\* document that the candidate lacks is absent.
C18_AcceptedWriteReplacesWholesale ==
  ( /\ Handled
    /\ post[1].body.kind = "object"
    /\ post[1].status = 200
    /\ Admits(post[1].before, post[1].body) )
  => \E t \in post[1].at..now : GetBody(currentState) = Stamp(post[1].body, t)

\* A stored document with a control mode was replaced by the verification script's
\* document, which has a testValue and no control mode.
C18_Witness ==
  /\ Handled
  /\ post[1].status = 200
  /\ WellFormed(post[1].before) /\ post[1].before.controlMode = "manual"
  /\ post[1].body \in TestDocuments
  /\ Admits(post[1].before, post[1].body)
  /\ GetBody(currentState).testValue = "test"
  /\ GetBody(currentState).controlMode = "absent"

\* C19 as stated: a client whose server-push stream request was answered is in the
\* clients map from then on, and every change of the stored document after that is
\* written to its stream in full.
C19_OpenedStreamGetsEveryAcceptedWrite ==
  [][ \A id \in opened :
        /\ id \in clients
        /\ currentState' # currentState
           => [to |-> id, data |-> GetBody(currentState')] \in pushed' ]_vars

\* C13 as stated: at most one transport resource is live, and a live resource is
\* the one config.method selects.
C13_OneTransportOfTheConfiguredMethod ==
  \A c \in Clients : LiveResources(transport[c]) \subseteq {config[c].method}

\* C14 as stated: once cleanup() has returned, and until updateConfig is called, no
\* timer, socket or stream of the engine is live.
C14_NothingLiveAfterCleanup ==
  \A c \in Clients : cleaned[c] => LiveResources(transport[c]) = {}

\* The engine of c is configured for the push socket.
PushSocket(c) == config[c].method = "websocket" /\ config[c].websocketUrl

C11_FailedSaveChangesNothing ==
  [][ \A c \in Clients : \A k \in 1..Len(publish[c]) :
        ( /\ publish[c][k].pc = "response"
          /\ ~publish[c][k].ok
          /\ publish'[c][k].pc = "returned" )
        => /\ ~publish'[c][k].result
           /\ state'[c] = state[c]
           /\ invoked'[c] = <<>>
           /\ sent'[c] = <<>> ]_vars

\* A publish has returned false while the socket was open and a callback was
\* registered, and nothing was invoked or sent.
C11_Witness ==
  \E c \in Clients :
    /\ Len(publish[c]) >= 1
    /\ publish[c][1].pc = "returned" /\ ~publish[c][1].result
    /\ transport[c].websocket = "open"
    /\ Len(onStateChangeCallbacks[c]) >= 1
    /\ invoked[c] = <<>> /\ sent[c] = <<>>
    /\ state[c] # publish[c][1].newState

\* C12 as stated: the in-memory document is never the empty object, whatever the
\* endpoint returned to the initial load: it is a document with a lastUpdated,
\* and so is every document handed to a callback.
C12_EmptyEndpointKeepsDefault ==
  \A c \in Clients :
    /\ WellFormed(state[c])
    /\ \A i \in 1..Len(invoked[c]) : WellFormed(invoked[c][i].state)

\* C16 as stated: the step of onStateChange(cb) invokes cb once, and nothing else,
\* with the in-memory document, which it leaves as it is; and no step invokes a
\* callback that is not registered by then, so no update reaches cb before the replay.
C16_ReplayOnceBeforeAnyUpdate ==
  [][ \A c \in Clients :
        /\ Len(onStateChangeCallbacks'[c]) = Len(onStateChangeCallbacks[c]) + 1
           => /\ state'[c] = state[c]
              /\ invoked'[c] = <<[callback |-> onStateChangeCallbacks'[c][Len(onStateChangeCallbacks'[c])],
                                  state |-> state[c]]>>
        /\ \A i \in 1..Len(invoked'[c]) :
             \E j \in 1..Len(onStateChangeCallbacks'[c]) :
               onStateChangeCallbacks'[c][j] = invoked'[c][i].callback ]_vars

\* A second callback was registered after the document had changed, and it alone
\* was invoked, with that document.
C16_Witness ==
  \E c \in Clients :
    /\ Len(onStateChangeCallbacks[c]) = 2
    /\ onStateChangeCallbacks[c][1] # onStateChangeCallbacks[c][2]
    /\ invoked[c] = <<[callback |-> onStateChangeCallbacks[c][2], state |-> state[c]]>>
    /\ state[c].lastUpdatedBy # "system"

\* C17 as stated: a step of updateConfig or getSyncService(config) leaves the list
\* of callbacks as it is, and every step that changes the in-memory document
\* invokes each registered callback once, in order, with the new document.
C17_ReconfigurationKeepsCallbacks ==
  [][ \A c \in Clients :
        /\ Len(initialize'[c]) > Len(initialize[c])
           => onStateChangeCallbacks'[c] = onStateChangeCallbacks[c]
        /\ state'[c] # state[c]
           => invoked'[c] = [i \in 1..Len(onStateChangeCallbacks[c]) |->
                               [callback |-> onStateChangeCallbacks[c][i], state |-> state'[c]]] ]_vars

\* The engine was reconfigured with two callbacks registered, its new initial load
\* is over, and the step that last changed the document invoked both.
C17_Witness ==
  \E c \in Clients :
    /\ Len(initialize[c]) = 2
    /\ initialize[c][2].pc = "done"
    /\ Len(onStateChangeCallbacks[c]) = 2
    /\ Len(invoked[c]) = 2
    /\ invoked[c][1].state = state[c] /\ invoked[c][2].state = state[c]
    /\ invoked[c][1].callback = onStateChangeCallbacks[c][1]
    /\ invoked[c][2].callback = onStateChangeCallbacks[c][2]

\* C20 as stated: when fetchState() resumes from a getState that returned no
\* document, the in-memory document, the callbacks and the polling timer are as
\* before, no callback is invoked, and the next tick can send a new fetch.
C20_FailedFetchIsSwallowed ==
  [][ \A c \in Clients :
        ( /\ fetchState[c].pc = "response"
          /\ Falsy(fetchState[c].resp)
          /\ fetchState'[c].pc # "response" )
        => /\ state'[c] = state[c]
           /\ invoked'[c] = <<>>
           /\ transport'[c] = transport[c]
           /\ fetchState'[c] = NoRequest ]_vars

\* A fetch of a polling engine has failed while a callback is registered and the
\* timer runs.
C20_Witness ==
  \E c \in Clients :
    /\ config[c].method = "polling"
    /\ transport[c].pollingInterval
    /\ fetchState[c].pc = "response" /\ Falsy(fetchState[c].resp)
    /\ Len(onStateChangeCallbacks[c]) >= 1
    /\ WellFormed(state[c])

\* C21 as stated: saveState(v) of the server adapter, v being what its getState
\* just returned (the GET body, or null when the request failed), leaves what
\* getState returns as it was before the call.
C21_SaveOfWhatGetStateReturnedIsNoOp ==
  ( /\ Handled
    /\ \E ok \in BOOLEAN : post[1].body = (IF ok THEN GetBody(post[1].before) ELSE Null) )
  => GetBody(currentState) = GetBody(post[1].before)

\* C22 as stated: what a caller does to the object it was handed by a callback or
\* by getState() shows neither in the in-memory document nor in a document that
\* is published later.
C22_SubscribersGetSnapshots ==
  \A c \in Clients :
    /\ state[c] # Mutate(state[c])
    /\ \A k \in 1..Len(publish[c]) : publish[c][k].newState # Mutate(publish[c][k].newState)

\* C23 as stated: a step that offers a remote document to the engine makes it the
\* in-memory document and invokes every registered callback once, in order, with
\* it, if its lastUpdated is greater than the in-memory lastUpdated; otherwise the
\* step leaves the in-memory document as it is and invokes no callback.
C23_AdoptedIffStrictlyNewer ==
  [][ \A c \in Clients :
        ( /\ offered'[c] # <<>>
          /\ <<state[c], invoked[c], offered[c]>>' # <<state[c], invoked[c], offered[c]>> )
        => IF JsGreater(offered'[c][1].lastUpdated, state[c].lastUpdated)
             THEN /\ state'[c] = offered'[c][1]
                  /\ invoked'[c] = [i \in 1..Len(onStateChangeCallbacks[c]) |->
                                      [callback |-> onStateChangeCallbacks[c][i], state |-> offered'[c][1]]]
             ELSE /\ state'[c] = state[c]
                  /\ invoked'[c] = <<>> ]_vars

\* Another participant's document was offered, was newer than the document held
\* and was handed to the two callbacks registered.
C23_Witness ==
  \E c \in Clients :
    /\ offered[c] = <<state[c]>>
    /\ state[c] \in RemoteDocuments
    /\ Len(onStateChangeCallbacks[c]) = 2
    /\ Len(invoked[c]) = 2
    /\ invoked[c][1].state = state[c] /\ invoked[c][2].state = state[c]

\* the largest lastUpdated of the documents of a set that carry one, or Undef
Highest(docs) ==
  LET stamps == {d.lastUpdated : d \in docs} \ {Undef}
  IN IF stamps = {} THEN Undef ELSE CHOOSE m \in stamps : \A n \in stamps : n <= m

\* C24 as stated: whatever document the engine holds, two remote documents with
\* different lastUpdated leave the same in-memory document when offered in either
\* order, and its lastUpdated is the highest of the three.
C24_EitherOrderLeavesTheNewest ==
  \A c \in Clients : \A a \in RemoteDocuments : \A b \in RemoteDocuments :
    a.lastUpdated # b.lastUpdated
    => LET ab == updateState(updateState(state[c], a), b)
           ba == updateState(updateState(state[c], b), a)
       IN /\ ab = ba
          /\ ab.lastUpdated = Highest({state[c], a, b})

\* the value document doc has for the field that partial names
Named(doc, partial) ==
  CASE partial.field = "controlMode" -> doc.controlMode
    [] partial.field = "signalStatus" -> doc.signalStatus
    [] partial.field = "lastUpdated" -> doc.lastUpdated
    [] partial.field = "lastUpdatedBy" -> doc.lastUpdatedBy

\* C25 as stated: the document a call of updateStateAndPublish hands to saveState
\* has lastUpdated = the caller's clock and lastUpdatedBy = its clientId, whatever
\* partialState says of the two; the other field partialState names has the value
\* partialState gives it, and every other field has its in-memory value.
C25_PublishedDocumentIsStampedMerge ==
  [][ \A c \in Clients :
        Len(publish'[c]) = Len(publish[c]) + 1
        => LET call == publish'[c][Len(publish'[c])]
               doc == call.newState
               expected == [state[c] EXCEPT !.lastUpdated = ClientNow(c), !.lastUpdatedBy = c]
           IN /\ doc.lastUpdated = ClientNow(c)
              /\ doc.lastUpdatedBy = c
              /\ doc.kind = "object"
              /\ call.partial.field \notin {"lastUpdated", "lastUpdatedBy"}
                 => Named(doc, call.partial) = call.partial.value
              /\ doc.controlMode = (IF call.partial.field = "controlMode"
                                      THEN call.partial.value ELSE expected.controlMode)
              /\ doc.signalStatus = (IF call.partial.field = "signalStatus"
                                       THEN call.partial.value ELSE expected.signalStatus)
              /\ doc.testValue = expected.testValue ]_vars

\* A publish named lastUpdated itself while the engine held another participant's
\* document; the document sent carries the clock's reading instead, this client's
\* id, and the control mode of the document held.
C25_Witness ==
  \E c \in Clients :
    /\ Len(publish[c]) = 1
    /\ publish[c][1].partial.field = "lastUpdated"
    /\ publish[c][1].newState.lastUpdated # publish[c][1].partial.value
    /\ publish[c][1].newState.controlMode = "manual"
    /\ publish[c][1].newState.lastUpdatedBy = c
    /\ publish[c][1].result

\* C26 as stated: a call of updateStateAndPublish returns true only if its saveState
\* reported success, and saveState reports success only if the endpoint admitted
\* the document, the stored document right after the request being the published
\* one but for the server's stamp.
C26_TrueMeansAdmitted ==
  [][ \A c \in Clients : \A k \in 1..Len(publish[c]) :
        /\ ( /\ publish[c][k].pc = "response"
             /\ publish'[c][k].pc = "returned"
             /\ publish'[c][k].result )
           => publish[c][k].ok
        /\ ( /\ publish[c][k].pc = "sent"
             /\ publish'[c][k].pc = "response"
             /\ publish'[c][k].ok )
           => /\ Admits(currentState, publish[c][k].newState)
              /\ SameButStamp(currentState', publish[c][k].newState) ]_vars

\* C27 as stated: whenever the in-memory document of an engine changes, its
\* lastUpdated is at least the lastUpdated it replaces.
C27_InMemoryStampNeverDecreases ==
  [][ \A c \in Clients :
        (state[c].lastUpdated # Undef /\ state'[c].lastUpdated # Undef)
        => state'[c].lastUpdated >= state[c].lastUpdated ]_vars

\* C28 as stated: when the hook's fetchState resumes and replaces the document
\* held, the replacement is the fetched document and its lastUpdated is greater
\* than that of the document held at that moment.
C28_PollReplacesOnlyWithNewer ==
  [][ \A c \in Clients :
        ( /\ hook[c].fetch.pc = "response"
          /\ hook'[c].fetch.pc = "idle"
          /\ hook'[c].state # hook[c].state )
        => /\ hook'[c].state = hook[c].fetch.resp
           /\ JsGreater(hook[c].fetch.resp.lastUpdated, hook[c].state.lastUpdated) ]_vars

\* C29 as stated: when a timer set by onclose fires while the engine holds an open
\* socket, the step neither closes that socket nor puts another in its place.
C29_TimerLeavesHealthySocketAlone ==
  [][ \A c \in Clients :
        ( /\ transport'[c].reconnect < transport[c].reconnect
          /\ transport[c].websocket = "open" )
        => /\ transport'[c].websocket = "open"
           /\ transport'[c].closing = transport[c].closing ]_vars

\* C30 as stated: when a call of updateStateAndPublish returns false, its save had
\* not gone through, so that it stored nothing, and the step that returns leaves
\* the in-memory document as it is and invokes no callback.
C30_FalseMeansNothingChanged ==
  [][ \A c \in Clients : \A k \in 1..Len(publish[c]) :
        ( /\ publish[c][k].pc = "response"
          /\ publish'[c][k].pc = "returned"
          /\ ~publish'[c][k].result )
        => /\ ~publish[c][k].ok
           /\ state'[c] = state[c]
           /\ invoked'[c] = <<>> ]_vars

====
